---- MODULE Spec2Model ----
(***************************************************************************)
(* A model of gracie-exam-prep/ocr_to_json.py: the path collector, the     *)
(* heuristic question/answer splitter and the run of main().               *)
(*                                                                         *)
(* A Python str is a sequence of one-character strings, so that strip,     *)
(* lower, startswith, splitlines, join and Path.suffix are computed the    *)
(* way the library computes them.                                          *)
(***************************************************************************)
EXTENDS Integers, Sequences, FiniteSets, TLC

----------------------------------------------------------------------------
(* Bounds of the model.                                                    *)

\* the longest command line: number of positional input specifiers
MaxInputs == 2
\* the most physical lines of one OCR text in the splitter specification
MaxLines == 3
\* how often the host may install/remove the tesseract binary during a run
MaxEnvChanges == 1

----------------------------------------------------------------------------
(* str primitives                                                          *)

UpperLetters ==
    << "A","B","C","D","E","F","G","H","I","J","K","L","M",
       "N","O","P","Q","R","S","T","U","V","W","X","Y","Z" >>

LowerLetters ==
    << "a","b","c","d","e","f","g","h","i","j","k","l","m",
       "n","o","p","q","r","s","t","u","v","w","x","y","z" >>

\* the characters of the model in code-point order (for str comparison)
CodePointOrder ==
    << "\t", "\n", "\r", " ", "*", ".", "/", "2", "4", ":", "?" >>
    \o UpperLetters \o LowerLetters

Ord(c) == CHOOSE i \in 1..Len(CodePointOrder) : CodePointOrder[i] = c

\* str.lower() on one character
LowerChar(c) ==
    IF \E i \in 1..Len(UpperLetters) : UpperLetters[i] = c
    THEN LowerLetters[CHOOSE i \in 1..Len(UpperLetters) : UpperLetters[i] = c]
    ELSE c

\* str.lower()
Lower(s) == [i \in 1..Len(s) |-> LowerChar(s[i])]

\* str.isspace() on one character
IsSpace(c) == c \in {" ", "\t", "\n", "\r"}

\* the line boundaries str.splitlines() recognises
IsLineBreak(c) == c \in {"\n", "\r"}

RECURSIVE LStrip(_)
LStrip(s) ==
    IF s # << >> /\ IsSpace(Head(s)) THEN LStrip(Tail(s)) ELSE s

RECURSIVE RStrip(_)
RStrip(s) ==
    IF s # << >> /\ IsSpace(s[Len(s)])
    THEN RStrip(SubSeq(s, 1, Len(s) - 1))
    ELSE s

\* str.strip()
Strip(s) == RStrip(LStrip(s))

\* str.startswith(prefix)
StartsWith(s, prefix) ==
    /\ Len(prefix) <= Len(s)
    /\ SubSeq(s, 1, Len(prefix)) = prefix

\* s[n:]
DropPrefix(s, n) == SubSeq(s, n + 1, Len(s))

\* str.splitlines(): "\n", "\r" and "\r\n" end a line; no empty last line
RECURSIVE SplitLinesFrom(_, _, _)
SplitLinesFrom(s, cur, acc) ==
    IF s = << >>
    THEN IF cur = << >> THEN acc ELSE Append(acc, cur)
    ELSE IF Head(s) = "\r" /\ Len(s) >= 2 /\ s[2] = "\n"
    THEN SplitLinesFrom(Tail(Tail(s)), << >>, Append(acc, cur))
    ELSE IF IsLineBreak(Head(s))
    THEN SplitLinesFrom(Tail(s), << >>, Append(acc, cur))
    ELSE SplitLinesFrom(Tail(s), Append(cur, Head(s)), acc)

SplitLines(s) == SplitLinesFrom(s, << >>, << >>)

\* " ".join(parts)
RECURSIVE JoinSpace(_)
JoinSpace(parts) ==
    IF parts = << >> THEN << >>
    ELSE IF Len(parts) = 1 THEN parts[1]
    ELSE parts[1] \o << " " >> \o JoinSpace(Tail(parts))

----------------------------------------------------------------------------
(* split_question_answer                                                   *)

answer_markers ==
    << << "a","n","s","w","e","r",":" >>,
       << "a","n","s",":" >>,
       << "a",":" >> >>

question_markers ==
    << << "q","u","e","s","t","i","o","n",":" >>,
       << "q",":" >>,
       << "q","." >> >>

\* [line.strip() for line in text.splitlines() if line.strip()]
IsNonEmpty(s) == s # << >>

StrippedLines(text) ==
    LET raw == SplitLines(text)
    IN  SelectSeq([i \in 1..Len(raw) |-> Strip(raw[i])], IsNonEmpty)

\* the inner "for marker in markers: if ....startswith(marker)": the index of
\* the first marker of the tuple the lower-cased line starts with, 0 if none
RECURSIVE FirstMarkerFrom(_, _, _)
FirstMarkerFrom(lower_line, markers, m) ==
    IF m > Len(markers) THEN 0
    ELSE IF StartsWith(lower_line, markers[m]) THEN m
    ELSE FirstMarkerFrom(lower_line, markers, m + 1)

FirstMarker(lower_line, markers) == FirstMarkerFrom(lower_line, markers, 1)

\* the body of "if lower_line.startswith(marker)": the returned pair
AnswerSplitAt(lines, idx, marker) ==
    LET answer_first_line == Strip(DropPrefix(lines[idx], Len(marker)))
        answer_parts ==
            (IF answer_first_line # << >> THEN << answer_first_line >> ELSE << >>)
            \o SubSeq(lines, idx + 1, Len(lines))
        question_text == Strip(JoinSpace(SubSeq(lines, 1, idx - 1)))
    IN  [question |-> question_text, answer |-> Strip(JoinSpace(answer_parts))]

\* "for idx, lower_line in enumerate(lower_lines)": the index of the line the
\* scan returns at, 0 when it runs off the end
RECURSIVE ScanAnswerFrom(_, _)
ScanAnswerFrom(lines, idx) ==
    IF idx > Len(lines) THEN 0
    ELSE IF FirstMarker(Lower(lines[idx]), answer_markers) # 0 THEN idx
    ELSE ScanAnswerFrom(lines, idx + 1)

\* a scan that keeps the last marker line instead of returning at the first
ScanAnswerLast(lines) ==
    LET hits == {i \in 1..Len(lines) :
                    FirstMarker(Lower(lines[i]), answer_markers) # 0}
    IN  IF hits = {} THEN 0 ELSE CHOOSE i \in hits : \A j \in hits : j <= i

ScanAnswer(lines) == ScanAnswerFrom(lines, 1)

\* marker stripping without the "or question_line" fallback
StripQuestionMarkerNoFallback(question_line) ==
    LET m == FirstMarker(Lower(question_line), question_markers)
    IN  IF m = 0 THEN question_line
        ELSE Strip(DropPrefix(question_line, Len(question_markers[m])))

\* lines 61-68: the fallback branch's question line
StripQuestionMarker(question_line) ==
    LET m == FirstMarker(Lower(question_line), question_markers)
    IN  IF m = 0 THEN question_line
        ELSE LET trimmed == Strip(DropPrefix(question_line, Len(question_markers[m])))
             IN  IF trimmed # << >> THEN trimmed ELSE question_line

FallbackSplit(lines) ==
    [question |-> StripQuestionMarker(lines[1]),
     answer   |-> Strip(JoinSpace(Tail(lines)))]

\* a splitter that strips a question marker in every branch
split_question_answer_StripAlways(text) ==
    LET lines == StrippedLines(text)
        idx == ScanAnswer(lines)
        r == IF lines = << >> THEN [question |-> << >>, answer |-> << >>]
             ELSE IF idx # 0
             THEN AnswerSplitAt(lines, idx,
                      answer_markers[FirstMarker(Lower(lines[idx]), answer_markers)])
             ELSE IF Len(lines) > 1 THEN FallbackSplit(lines)
             ELSE [question |-> lines[1], answer |-> << >>]
    IN  [question |-> StripQuestionMarker(r.question), answer |-> r.answer]

split_question_answer(text) ==
    LET lines == StrippedLines(text)
        idx == ScanAnswer(lines)
    IN  IF lines = << >> THEN [question |-> << >>, answer |-> << >>]
        ELSE IF idx # 0
        THEN AnswerSplitAt(lines, idx,
                 answer_markers[FirstMarker(Lower(lines[idx]), answer_markers)])
        ELSE IF Len(lines) > 1 THEN FallbackSplit(lines)
        ELSE [question |-> lines[1], answer |-> << >>]

----------------------------------------------------------------------------
(* State                                                                   *)

VARIABLES
    pc,           \* position of the run (or of the splitter call)
    inputs,       \* args.inputs: the raw input specifiers, in order
    output,       \* TRUE when --output names a file
    fs,           \* the filesystem: node path |-> "file" or "dir"
    onPath,       \* TRUE when the tesseract binary can be located
    envChanges,   \* how often the host changed onPath so far
    idx,          \* number of raw inputs collect_image_paths has consumed
    image_paths,  \* the list "paths" of collect_image_paths
    questions,    \* the list "questions" of build_questions
    ocrLog,       \* the texts run_ocr returned, with the image of each call
    ocrCalls,     \* number of run_ocr calls made
    stdout,       \* documents printed
    outfile,      \* documents written to args.output
    abortReason,  \* why the run terminated with an error, "" otherwise
    text,         \* the splitter's input
    result        \* the splitter's returned pair

vars == << pc, inputs, output, fs, onPath, envChanges, idx, image_paths,
           questions, ocrLog, ocrCalls, stdout, outfile, abortReason,
           text, result >>

NoResult == [question |-> << >>, answer |-> << >>]

----------------------------------------------------------------------------
(* pathlib: paths, the filesystem, suffix, ordering, rglob and glob.       *)
(* A path is [abs, parts]; the working directory is the root directory, so  *)
(* a relative and an absolute path with the same parts name the same node. *)

IMAGE_EXTENSIONS ==
    { << ".","p","n","g" >>, << ".","j","p","g" >>, << ".","j","p","e","g" >>,
      << ".","t","i","f","f" >>, << ".","b","m","p" >>, << ".","g","i","f" >> }

\* str.split("/") as pathlib parses it: empty and "." components are dropped
RECURSIVE SplitSlashFrom(_, _, _)
SplitSlashFrom(s, cur, acc) ==
    LET flush == IF cur = << >> \/ cur = << "." >> THEN acc ELSE Append(acc, cur)
    IN  IF s = << >> THEN flush
        ELSE IF Head(s) = "/" THEN SplitSlashFrom(Tail(s), << >>, flush)
        ELSE SplitSlashFrom(Tail(s), Append(cur, Head(s)), acc)

\* Path(raw)
Path(raw) ==
    [abs   |-> (raw # << >> /\ Head(raw) = "/"),
     parts |-> SplitSlashFrom(raw, << >>, << >>)]

\* Path.is_file(), Path.is_dir()
is_file(path) == path.parts \in DOMAIN fs /\ fs[path.parts] = "file"

is_dir(path) ==
    \/ path.parts = << >>
    \/ path.parts \in DOMAIN fs /\ fs[path.parts] = "dir"

\* str.rfind(".") (1-based, 0 when absent)
LastDot(name) ==
    LET dots == {i \in 1..Len(name) : name[i] = "."}
    IN  IF dots = {} THEN 0 ELSE CHOOSE i \in dots : \A j \in dots : j <= i

\* PurePath.suffix: the last component from its last dot, unless the dot is
\* the first or the last character
suffix(path) ==
    IF path.parts = << >> THEN << >>
    ELSE LET name == path.parts[Len(path.parts)]
             i == LastDot(name)
         IN  IF 1 < i /\ i < Len(name) THEN SubSeq(name, i, Len(name)) ELSE << >>

\* image_path.suffix.lower() in IMAGE_EXTENSIONS
HasImageSuffix(path) == Lower(suffix(path)) \in IMAGE_EXTENSIONS

\* str < str
RECURSIVE StrLess(_, _)
StrLess(a, b) ==
    IF b = << >> THEN FALSE
    ELSE IF a = << >> THEN TRUE
    ELSE IF Head(a) # Head(b) THEN Ord(Head(a)) < Ord(Head(b))
    ELSE StrLess(Tail(a), Tail(b))

\* PurePath.__lt__: the component lists compared as lists of str
RECURSIVE PartsLess(_, _)
PartsLess(p, q) ==
    IF q = << >> THEN FALSE
    ELSE IF p = << >> THEN TRUE
    ELSE IF Head(p) # Head(q) THEN StrLess(Head(p), Head(q))
    ELSE PartsLess(Tail(p), Tail(q))

PathLess(p, q) == PartsLess(p.parts, q.parts)

\* the order in which the operating system lists entries: unspecified
RECURSIVE ListingOrder(_)
ListingOrder(S) ==
    IF S = {} THEN << >>
    ELSE LET x == CHOOSE x \in S : TRUE
         IN  << x >> \o ListingOrder(S \ {x})

RECURSIVE InsertSorted(_, _)
InsertSorted(sortedSeq, x) ==
    IF sortedSeq = << >> THEN << x >>
    ELSE IF PathLess(x, Head(sortedSeq)) THEN << x >> \o sortedSeq
    ELSE << Head(sortedSeq) >> \o InsertSorted(Tail(sortedSeq), x)

RECURSIVE SortFrom(_, _)
SortFrom(seq, acc) ==
    IF seq = << >> THEN acc ELSE SortFrom(Tail(seq), InsertSorted(acc, Head(seq)))

\* sorted(iterable of Path)
sorted(S) == SortFrom(ListingOrder(S), << >>)

IsPrefix(p, q) == Len(p) <= Len(q) /\ SubSeq(q, 1, Len(p)) = p

\* path.rglob("*"): every entry below the directory, files and directories
rglob(path) ==
    { [abs |-> path.abs, parts |-> n] :
        n \in {m \in DOMAIN fs : IsPrefix(path.parts, m) /\ m # path.parts} }

\* fnmatch of one component; "*" matches any run of characters
RECURSIVE FnMatch(_, _)
FnMatch(pat, name) ==
    IF pat = << >> THEN name = << >>
    ELSE IF Head(pat) = "*"
    THEN FnMatch(Tail(pat), name) \/ (name # << >> /\ FnMatch(pat, Tail(name)))
    ELSE name # << >> /\ Head(name) = Head(pat) /\ FnMatch(Tail(pat), Tail(name))

\* Path().glob(raw) raises NotImplementedError("Non-relative patterns are
\* unsupported") for a pattern with a root
GlobRaises(raw) == Path(raw).abs

\* Path().glob(raw) for a relative pattern of literal and "*" components
glob(raw) ==
    LET pat == Path(raw).parts
    IN  { [abs |-> FALSE, parts |-> n] :
            n \in {m \in DOMAIN fs :
                     /\ Len(m) = Len(pat)
                     /\ \A i \in 1..Len(pat) : FnMatch(pat[i], m[i])} }

----------------------------------------------------------------------------
(* collect_image_paths                                                     *)

\* an append that skips a path already collected
AppendPathDedup(paths, p) ==
    IF \E i \in 1..Len(paths) : paths[i] = p THEN paths ELSE Append(paths, p)

\* paths.append(p)
AppendPath(paths, p) == Append(paths, p)

\* "for image_path in <sorted>: if <suffix test>: paths.append(image_path)"
RECURSIVE ExtendWithImages(_, _)
ExtendWithImages(paths, seq) ==
    IF seq = << >> THEN paths
    ELSE ExtendWithImages(
             IF HasImageSuffix(Head(seq)) THEN AppendPath(paths, Head(seq)) ELSE paths,
             Tail(seq))

\* which branch of the if/elif/else one raw input takes
Branch(raw) ==
    IF is_file(Path(raw)) /\ HasImageSuffix(Path(raw)) THEN "file"
    ELSE IF is_dir(Path(raw)) THEN "dir"
    ELSE "glob"

\* one iteration of "for raw in inputs" (lines 27-38) on the list so far
CollectOne(paths, raw) ==
    IF Branch(raw) = "file" THEN AppendPath(paths, Path(raw))
    ELSE IF Branch(raw) = "dir" THEN ExtendWithImages(paths, sorted(rglob(Path(raw))))
    ELSE ExtendWithImages(paths, sorted(glob(raw)))

----------------------------------------------------------------------------
(* The splitter on its own: every text of up to MaxLines physical lines    *)
(* drawn from LinePool, joined by "\n" or "\r\n".                          *)

LinePool ==
    { << >>,
      << " ", "\t" >>,
      << "W","h","a","t","?" >>,
      << "P","a","r","i","s"," ","2","M" >>,
      << "A","n","s","w","e","r",":"," ","4" >>,
      << "A","N","S","W","E","R",":","4","2" >>,
      << " ","a","n","s",":"," " >>,
      << "A",":"," ","y" >>,
      << "A","n","s","w","e","r" >>,
      << "Q",":"," ","D","e","f","i","n","e" >>,
      << " ","q",":" >>,
      << "Q","." >>,
      << "Q","u","e","s","t","i","o","n",":","x" >>,
      << "q",":"," ","a",":"," ","b" >> }

LineSeparators == { << "\n" >>, << "\r", "\n" >> }

RECURSIVE JoinWith(_, _)
JoinWith(parts, sep) ==
    IF parts = << >> THEN << >>
    ELSE IF Len(parts) = 1 THEN parts[1]
    ELSE parts[1] \o sep \o JoinWith(Tail(parts), sep)

TextPool ==
    { JoinWith(ls, sep) :
        ls \in UNION { [1..n -> LinePool] : n \in 0..MaxLines },
        sep \in LineSeparators }

RunConstantsIdle ==
    /\ inputs = << >> /\ output = FALSE /\ fs = << >> /\ onPath = TRUE
    /\ envChanges = 0 /\ idx = 0 /\ image_paths = << >> /\ questions = << >>
    /\ ocrLog = << >> /\ ocrCalls = 0 /\ stdout = << >> /\ outfile = << >>
    /\ abortReason = ""

InitSplit ==
    /\ pc = "split_input"
    /\ text \in TextPool
    /\ result = NoResult
    /\ RunConstantsIdle

SplitCall ==
    /\ pc = "split_input"
    /\ result' = split_question_answer(text)
    /\ pc' = "split_done"
    /\ UNCHANGED << inputs, output, fs, onPath, envChanges, idx, image_paths,
                    questions, ocrLog, ocrCalls, stdout, outfile, abortReason,
                    text >>

NextSplit == SplitCall

SpecSplit == InitSplit /\ [][NextSplit]_vars

----------------------------------------------------------------------------
(* Claims about split_question_answer (specification SpecSplit)         *)

IsAnswerLine(line) ==
    \E m \in 1..Len(answer_markers) : StartsWith(Lower(line), answer_markers[m])

IsQuestionLine(line) ==
    \E m \in 1..Len(question_markers) : StartsWith(Lower(line), question_markers[m])

AnswerLines(L) == {i \in 1..Len(L) : IsAnswerLine(L[i])}

\* C5: when some trimmed non-empty line starts (case-insensitively) with an
\* answer marker, the split point is the first such line i: the question is
\* the lines before i joined by single spaces; the answer is the rest of line
\* i after the marker (left out when empty after trimming) followed by the
\* lines after i, joined by single spaces; both results are trimmed.
C5_FirstAnswerMarkerSplits ==
    pc = "split_done" =>
        LET L == StrippedLines(text)
        IN  AnswerLines(L) # {} =>
            LET i == CHOOSE k \in AnswerLines(L) : \A j \in AnswerLines(L) : k <= j
            IN  \E m \in 1..Len(answer_markers) :
                  /\ StartsWith(Lower(L[i]), answer_markers[m])
                  /\ LET rest == Strip(DropPrefix(L[i], Len(answer_markers[m])))
                         frags == (IF rest = << >> THEN << >> ELSE << rest >>)
                                  \o SubSeq(L, i + 1, Len(L))
                     IN  /\ result.question = JoinSpace(SubSeq(L, 1, i - 1))
                         /\ result.answer = JoinSpace(frags)
                         /\ Strip(result.question) = result.question
                         /\ Strip(result.answer) = result.answer

\* C5 witness: a split text with two answer-marker lines, the first of them
\* not the first line and with nothing after its marker.
C5_Witness ==
    /\ pc = "split_done"
    /\ LET L == StrippedLines(text)
       IN  /\ Cardinality(AnswerLines(L)) >= 2
           /\ 1 \notin AnswerLines(L)
           /\ 2 \in AnswerLines(L)
           /\ L[2] \in {answer_markers[m] : m \in 1..Len(answer_markers)}
           /\ result.question = L[1]
           /\ result.answer = L[3]

\* C8: with no answer-marker line and more than one non-empty line, the
\* question is never empty: a leading question marker is stripped from the
\* first line unless that leaves nothing, in which case the first line is
\* kept as it is; the answer is the remaining lines joined by single spaces.
C8_FallbackQuestionNeverEmpty ==
    pc = "split_done" =>
        LET L == StrippedLines(text)
        IN  (AnswerLines(L) = {} /\ Len(L) > 1) =>
              /\ result.question # << >>
              /\ result.answer = JoinSpace(Tail(L))
              /\ ~IsQuestionLine(L[1]) => result.question = L[1]
              /\ \A m \in 1..Len(question_markers) :
                    StartsWith(Lower(L[1]), question_markers[m]) =>
                      LET t == Strip(DropPrefix(L[1], Len(question_markers[m])))
                      IN  result.question = (IF t = << >> THEN L[1] ELSE t)

\* C8 witness: a fallback split whose first line is nothing but a question
\* marker, returned unstripped.
C8_Witness ==
    /\ pc = "split_done"
    /\ LET L == StrippedLines(text)
       IN  /\ AnswerLines(L) = {}
           /\ Len(L) > 1
           /\ Lower(L[1]) \in {question_markers[m] : m \in 1..Len(question_markers)}
           /\ result.question = L[1]

\* C10: question markers are stripped in the fallback branch only: before an
\* answer-marker line a leading question marker stays in the question, and a
\* single non-empty line that starts with a question marker (and has no
\* answer marker) is returned as the question as it is, with an empty answer.
C10_QuestionMarkerKeptOutsideFallback ==
    pc = "split_done" =>
        LET L == StrippedLines(text)
        IN  /\ (AnswerLines(L) # {} /\ 1 \notin AnswerLines(L) /\ IsQuestionLine(L[1]))
                  => StartsWith(result.question, L[1])
            /\ (Len(L) = 1 /\ AnswerLines(L) = {} /\ IsQuestionLine(L[1]))
                  => result = [question |-> L[1], answer |-> << >>]

\* C10 witness: a single question-marker line split into (that line, "").
C10_Witness ==
    /\ pc = "split_done"
    /\ LET L == StrippedLines(text)
       IN  /\ Len(L) = 1
           /\ IsQuestionLine(L[1])
           /\ Len(L[1]) > 2
           /\ result.question = L[1]
           /\ result.answer = << >>

----------------------------------------------------------------------------
(* The run of main(): the bounded set of hosts and command lines           *)

name_a_PNG  == << "a",".","P","N","G" >>
name_b_txt  == << "b",".","t","x","t" >>
name_d      == << "d" >>
name_c_jpeg == << "c",".","j","p","e","g" >>
name_s_png  == << "s",".","p","n","g" >>

\* the entries a filesystem of the model may hold, with the kinds each may have
NodeKinds ==
    (<< name_a_PNG >> :> {"file"}) @@
    (<< name_b_txt >> :> {"file"}) @@
    (<< name_d >> :> {"dir"}) @@
    (<< name_d, name_c_jpeg >> :> {"file"}) @@
    (<< name_d, name_s_png >> :> {"file", "dir"})

\* every filesystem over those entries in which an entry's parent is a directory
FsPool ==
    { f \in UNION { [S -> {"file", "dir"}] : S \in SUBSET DOMAIN NodeKinds } :
        \A n \in DOMAIN f :
            /\ f[n] \in NodeKinds[n]
            /\ Len(n) > 1 =>
                  LET parent == SubSeq(n, 1, Len(n) - 1)
                  IN  parent \in DOMAIN f /\ f[parent] = "dir" }

\* the raw input specifiers a command line of the model is made of
RawPool ==
    { name_a_PNG,                    \* a.PNG (a file, or nothing at all)
      name_b_txt,                    \* b.txt
      name_d,                        \* d
      << "*",".","P","N","G" >>,     \* *.PNG
      name_d \o << "/", "*" >>,      \* d/*
      << "/" >> \o name_a_PNG }      \* /a.PNG

\* the text the OCR engine recognises in each image file of the model
EngineText(image) ==
    LET name == image.parts[Len(image.parts)]
    IN  IF name = name_a_PNG
        THEN << "W","h","a","t","?","\n","A","n","s","w","e","r",":"," ","4","\n" >>
        ELSE IF name = name_c_jpeg
        THEN << "Q",":"," ","D","e","f","i","n","e","\r","\n","P","a","r","i","s" >>
        ELSE << " ","Q","."," ","o","n","e"," ","l","i","n","e" >>

SplitIdle == text = << >> /\ result = NoResult

Init ==
    /\ pc = "start"
    /\ inputs \in UNION { [1..n -> RawPool] : n \in 0..MaxInputs }
    /\ output \in BOOLEAN
    /\ fs \in FsPool
    /\ onPath \in BOOLEAN
    /\ envChanges = 0
    /\ idx = 0
    /\ image_paths = << >>
    /\ questions = << >>
    /\ ocrLog = << >>
    /\ ocrCalls = 0
    /\ stdout = << >>
    /\ outfile = << >>
    /\ abortReason = ""
    /\ SplitIdle

Running == pc \in {"start", "ensure", "collect", "build"}

\* raise SystemExit(...) or an uncaught exception: the process terminates
Abort(reason) ==
    /\ pc' = "aborted"
    /\ abortReason' = reason

\* the host installs or removes the tesseract binary while the run goes on
EnvChange ==
    /\ Running
    /\ envChanges < MaxEnvChanges
    /\ onPath' = ~onPath
    /\ envChanges' = envChanges + 1
    /\ UNCHANGED << pc, inputs, output, fs, idx, image_paths, questions,
                    ocrLog, ocrCalls, stdout, outfile, abortReason, text, result >>

\* parser.parse_args(): nargs="+" rejects a command line without inputs
ParseArgs ==
    /\ pc = "start"
    /\ IF inputs = << >> THEN Abort("usage")
       ELSE pc' = "ensure" /\ UNCHANGED abortReason
    /\ UNCHANGED << inputs, output, fs, onPath, envChanges, idx, image_paths,
                    questions, ocrLog, ocrCalls, stdout, outfile, text, result >>

\* an up-front check that lets every host through
ensure_tesseract_available_NoCheck ==
    /\ pc = "ensure"
    /\ pc' = "collect"
    /\ UNCHANGED << inputs, output, fs, onPath, envChanges, idx, image_paths,
                    questions, ocrLog, ocrCalls, stdout, outfile, abortReason,
                    text, result >>

\* ensure_tesseract_available(): shutil.which("tesseract") or SystemExit
ensure_tesseract_available ==
    /\ pc = "ensure"
    /\ IF onPath THEN pc' = "collect" /\ UNCHANGED abortReason
       ELSE Abort("engine_check")
    /\ UNCHANGED << inputs, output, fs, onPath, envChanges, idx, image_paths,
                    questions, ocrLog, ocrCalls, stdout, outfile, text, result >>

\* collect_image_paths: one iteration of "for raw in inputs"
CollectStep ==
    /\ pc = "collect"
    /\ idx < Len(inputs)
    /\ LET raw == inputs[idx + 1]
       IN  IF Branch(raw) = "glob" /\ GlobRaises(raw)
           THEN /\ Abort("glob_error")
                /\ UNCHANGED << idx, image_paths >>
           ELSE /\ image_paths' = CollectOne(image_paths, raw)
                /\ idx' = idx + 1
                /\ UNCHANGED << pc, abortReason >>
    /\ UNCHANGED << inputs, output, fs, onPath, envChanges, questions, ocrLog,
                    ocrCalls, stdout, outfile, text, result >>

\* "return paths", then main's "if not image_paths: raise SystemExit"
CollectReturn ==
    /\ pc = "collect"
    /\ idx = Len(inputs)
    /\ IF image_paths = << >> THEN Abort("no_input")
       ELSE pc' = "build" /\ UNCHANGED abortReason
    /\ UNCHANGED << inputs, output, fs, onPath, envChanges, idx, image_paths,
                    questions, ocrLog, ocrCalls, stdout, outfile, text, result >>

\* the record build_questions appends for one OCR text
QARecord(t) ==
    [question |-> split_question_answer(t).question,
     answer   |-> split_question_answer(t).answer]

\* what lines 139-146 emit: the payload, serialized as one document
Payload(qs) == [questions |-> qs]

\* an insert at the front of the list
PrependRecord(qs, rec) == << rec >> \o qs

\* questions.append({...})
AppendRecord(qs, rec) == Append(qs, rec)

\* run_ocr raises: Image.open/convert fails (always so for a path that is no
\* file), or image_to_string fails with the engine missing (turned into
\* SystemExit by the except clause) or for any other reason (propagates)
RunOcrRaises(image) ==
    \/ Abort("image_open_failure")
    \/ is_file(image) /\ ~onPath /\ Abort("engine_ocr")
    \/ is_file(image) /\ onPath /\ Abort("ocr_failure")

\* run_ocr returns the engine's text t; the record is split off and appended
RunOcrReturns(image, t) ==
    /\ is_file(image)
    /\ onPath
    /\ questions' = AppendRecord(questions, QARecord(t))
    /\ ocrLog' = Append(ocrLog, [image |-> image, text |-> t])

\* an iteration that also prints the record it has just built
BuildStepStreaming ==
    /\ pc = "build"
    /\ ocrCalls < Len(image_paths)
    /\ ocrCalls' = ocrCalls + 1
    /\ LET image == image_paths[ocrCalls + 1]
       IN  \/ /\ RunOcrRaises(image)
              /\ UNCHANGED << questions, ocrLog, stdout >>
           \/ /\ RunOcrReturns(image, EngineText(image))
              /\ stdout' = Append(stdout, Payload(<< QARecord(EngineText(image)) >>))
              /\ UNCHANGED << pc, abortReason >>
    /\ UNCHANGED << inputs, output, fs, onPath, envChanges, idx, image_paths,
                    outfile, text, result >>

\* build_questions: one iteration of "for image_path in image_paths"
BuildStep ==
    /\ pc = "build"
    /\ ocrCalls < Len(image_paths)
    /\ ocrCalls' = ocrCalls + 1
    /\ LET image == image_paths[ocrCalls + 1]
       IN  \/ /\ RunOcrRaises(image)
              /\ UNCHANGED << questions, ocrLog >>
           \/ /\ RunOcrReturns(image, EngineText(image))
              /\ UNCHANGED << pc, abortReason >>
    /\ UNCHANGED << inputs, output, fs, onPath, envChanges, idx, image_paths,
                    stdout, outfile, text, result >>

\* an emit that prints the document and also writes it to the file
EmitDocumentTwice ==
    /\ pc = "build"
    /\ ocrCalls = Len(image_paths)
    /\ stdout' = Append(stdout, Payload(questions))
    /\ outfile' = Append(outfile, Payload(questions))
    /\ pc' = "done"
    /\ UNCHANGED << abortReason, inputs, output, fs, onPath, envChanges, idx,
                    image_paths, questions, ocrLog, ocrCalls, text, result >>

\* "return questions", json.dumps, then write_text or print (lines 139-146);
\* a failing write raises and may leave a truncated document behind
EmitDocument ==
    /\ pc = "build"
    /\ ocrCalls = Len(image_paths)
    /\ \/ /\ pc' = "done"
          /\ UNCHANGED abortReason
          /\ IF output
             THEN outfile' = Append(outfile, Payload(questions)) /\ UNCHANGED stdout
             ELSE stdout' = Append(stdout, Payload(questions)) /\ UNCHANGED outfile
       \/ /\ Abort("write_failure")
          /\ \/ UNCHANGED << stdout, outfile >>
             \/ output /\ outfile' = Append(outfile, "truncated") /\ UNCHANGED stdout
             \/ ~output /\ stdout' = Append(stdout, "truncated") /\ UNCHANGED outfile
    /\ UNCHANGED << inputs, output, fs, onPath, envChanges, idx, image_paths,
                    questions, ocrLog, ocrCalls, text, result >>

Next ==
    \/ ParseArgs
    \/ ensure_tesseract_available
    \/ CollectStep
    \/ CollectReturn
    \/ BuildStep
    \/ EmitDocument
    \/ EnvChange

Spec == Init /\ [][Next]_vars

----------------------------------------------------------------------------
(* Claims about the run (specification Spec)                            *)

EngineAborts == {"engine_check", "engine_ocr"}

NothingWritten == stdout = << >> /\ outfile = << >>

\* C1: on a run that completes, build_questions has produced exactly one QA
\* record per collected Image Reference, and the i-th record is the split of
\* the OCR text of the i-th Image Reference (nothing skipped or reordered).
C1_OneRecordPerImageInOrder ==
    /\ pc \in {"build", "done"} =>
          /\ Len(questions) = ocrCalls
          /\ Len(ocrLog) = ocrCalls
          /\ \A i \in 1..Len(questions) :
                /\ ocrLog[i].image = image_paths[i]
                /\ questions[i].question = split_question_answer(ocrLog[i].text).question
                /\ questions[i].answer = split_question_answer(ocrLog[i].text).answer
    /\ pc = "done" => Len(questions) = Len(image_paths)

\* C1 witness: a completed run over at least two images whose records differ.
C1_Witness ==
    /\ pc = "done"
    /\ Len(image_paths) >= 2
    /\ Len(questions) = Len(image_paths)
    /\ questions[1] # questions[2]

\* C2 (as stated): no run OCRs an earlier image successfully and then aborts
\* because the engine cannot be located.
C2_EngineAbortOnlyBeforeAnyOcr ==
    abortReason \in EngineAborts => questions = << >>

\* C2 (amended): the up-front check aborts before anything is collected or
\* OCRed; while the host has not changed, a run past the check has its
\* engine; an engine-not-found abort inside run_ocr happens only after the
\* host changed, at the call after the last successful one.
C2_UpFrontCheckThenPerCallHandler ==
    /\ abortReason = "engine_check" =>
          ~onPath /\ ocrCalls = 0 /\ idx = 0 /\ image_paths = << >> /\ questions = << >>
    /\ (pc \in {"collect", "build", "done"} /\ envChanges = 0) => onPath
    /\ abortReason = "engine_ocr" =>
          ~onPath /\ envChanges > 0 /\ ocrCalls = Len(questions) + 1

\* C2 witness: an engine-not-found abort after a successfully OCRed image.
C2_Witness ==
    /\ pc = "aborted"
    /\ abortReason = "engine_ocr"
    /\ Len(questions) >= 1

\* C3: in a run that aborts because the engine is unavailable, no input was
\* found or an image failed to OCR, nothing has been written to the output
\* file or to standard output, whatever was processed before the failure.
C3_NoPartialOutput ==
    (/\ pc = "aborted"
     /\ abortReason \in EngineAborts \cup {"no_input", "image_open_failure", "ocr_failure"})
    => NothingWritten

\* C3 witness: an OCR failure on a later image, with earlier records built.
C3_Witness ==
    /\ pc = "aborted"
    /\ abortReason \in {"image_open_failure", "ocr_failure"}
    /\ Len(questions) >= 1
    /\ NothingWritten

\* C4 (as stated, for a run with a valid command line whose collection
\* returned nothing but files): the run terminates with an error only when
\* the engine cannot be located or no input resolved to an image.
C4_ErrorOnlyForEngineOrNoInput ==
    (/\ pc = "aborted"
     /\ abortReason \notin {"usage", "glob_error"}
     /\ \A i \in 1..Len(image_paths) : is_file(image_paths[i]))
    => abortReason \in EngineAborts \cup {"no_input"}

\* a run that is not over can take its next step (CollectStep is enabled
\* whenever an input is left: its IF has an outcome in either case)
CanStep ==
    /\ pc = "start" => ENABLED ParseArgs
    /\ pc = "ensure" => ENABLED ensure_tesseract_available
    /\ pc = "collect" => (idx < Len(inputs) \/ ENABLED CollectReturn)
    /\ pc = "build" => ENABLED (BuildStep \/ EmitDocument)

\* C4 (amended): a run ends in an error for exactly these causes: the parser
\* rejects the command line, the engine is missing (at the check or at an
\* OCR call), an absolute input falls to the glob branch, no image is found,
\* an image fails to open or to OCR, or the write fails; a run that is not
\* over can always take its next step, and a run that completes has emitted
\* exactly one document, holding every record, to the one chosen sink.
C4_ErrorCausesAndSingleDocument ==
    /\ pc = "done" =>
          /\ abortReason = ""
          /\ image_paths # << >>
          /\ Len(questions) = Len(image_paths)
          /\ IF output
             THEN outfile = << Payload(questions) >> /\ stdout = << >>
             ELSE stdout = << Payload(questions) >> /\ outfile = << >>
    /\ pc # "done" =>
          \A i \in 1..Len(stdout \o outfile) : (stdout \o outfile)[i] = "truncated"
    /\ CanStep
    /\ pc = "aborted" =>
          /\ abortReason = "usage" => inputs = << >>
          /\ abortReason \in EngineAborts => ~onPath
          /\ abortReason = "glob_error" =>
                idx < Len(inputs) /\ Path(inputs[idx + 1]).abs
          /\ abortReason = "no_input" =>
                idx = Len(inputs) /\ image_paths = << >>
          /\ abortReason \in {"image_open_failure", "ocr_failure", "engine_ocr"} =>
                ocrCalls = Len(questions) + 1
          /\ abortReason = "write_failure" =>
                ocrCalls = Len(image_paths) /\ Len(stdout \o outfile) <= 1
          /\ abortReason \in EngineAborts \cup
                {"usage", "glob_error", "no_input", "image_open_failure",
                 "ocr_failure", "write_failure"}

\* C4 witness: a completed run that wrote its one document to the file.
C4_Witness ==
    /\ pc = "done"
    /\ output
    /\ outfile = << Payload(questions) >>
    /\ questions # << >>

\* the entries of S in ascending path order
RECURSIVE Ascending(_)
Ascending(S) ==
    IF S = {} THEN << >>
    ELSE LET least == CHOOSE x \in S : \A y \in S : x = y \/ PathLess(x, y)
         IN  << least >> \o Ascending(S \ {least})

\* what one input specifier is to contribute
ExpectedSub(raw) ==
    IF is_file(Path(raw)) /\ HasImageSuffix(Path(raw)) THEN << Path(raw) >>
    ELSE IF is_dir(Path(raw))
    THEN Ascending({q \in rglob(Path(raw)) : HasImageSuffix(q)})
    ELSE Ascending({q \in glob(raw) : HasImageSuffix(q)})

RECURSIVE ExpectedConcat(_)
ExpectedConcat(raws) ==
    IF raws = << >> THEN << >>
    ELSE ExpectedSub(Head(raws)) \o ExpectedConcat(Tail(raws))

\* C6: the collected list is the concatenation, in argument order, of each
\* consumed argument's own sub-sequence (the file itself, the ascending
\* recursive traversal of the directory, or the ascending glob matches);
\* nothing is deduplicated.
C6_ConcatenationInArgumentOrder ==
    image_paths = ExpectedConcat(SubSeq(inputs, 1, idx))

\* C6 witness: collection returned for two different arguments that both
\* match the same file, which is in the list twice.
C6_Witness ==
    /\ pc = "build"
    /\ idx = Len(inputs)
    /\ Len(inputs) = 2
    /\ inputs[1] # inputs[2]
    /\ Len(image_paths) >= 4
    /\ PathLess(image_paths[1], image_paths[2])
    /\ \E i, j \in 1..Len(image_paths) : i < j /\ image_paths[i] = image_paths[j]

\* C7: every collected Image Reference points at a file and has a recognized
\* extension (case-insensitively), and every entry below a consumed input
\* directory that has such an extension is collected.
C7_CollectedAreImageFiles ==
    /\ \A i \in 1..Len(image_paths) :
          is_file(image_paths[i]) /\ HasImageSuffix(image_paths[i])
    /\ \A k \in 1..idx :
          Branch(inputs[k]) = "dir" =>
            \A q \in rglob(Path(inputs[k])) :
                HasImageSuffix(q) => \E i \in 1..Len(image_paths) : image_paths[i] = q

\* C9: no individual input that matches nothing makes collect_image_paths
\* raise; the run fails for lack of input only after every input has been
\* consumed and only if the aggregate list is empty.
C9_NoErrorOnUnmatchedInput ==
    /\ abortReason # "glob_error"
    /\ abortReason = "no_input" => idx = Len(inputs) /\ image_paths = << >>

====
